---- MODULE Spec2Model ----
(***************************************************************************)
(* Trigger-wheel synchronization configuration builders of                 *)
(* firmware/controllers/trigger/decoders:                                  *)
(*   initializeGeneralizedTrigger, initialize4Plus1Generalized             *)
(*   (trigger_generalized.cpp), initialize4Plus1 (trigger_4plus1.cpp) and  *)
(*   initialize4Plus2 (trigger_4plus2.cpp).                                *)
(*                                                                         *)
(* Each builder is a run-to-completion function that populates one         *)
(* TriggerWaveform object.  The state is that object, the arguments of the *)
(* call, the locals the builder computed and the errors it reported.       *)
(*                                                                         *)
(* Angles are floats in the code; the inputs drawn here are whole degrees, *)
(* so angles and gap sizes are integers.  Gap ratios are floats that are   *)
(* not integers: a ratio is the pair [n, d] standing for n / d, with       *)
(* d = 0, n > 0 for +infinity and n = d = 0 for NaN, which is what IEEE    *)
(* division gives for x / 0 and 0 / 0.  All values are non-negative.       *)
(***************************************************************************)
EXTENDS Integers, Sequences, FiniteSets, TLC

\* ------------------------------------------------------------------ bounds

\* Longest tooth list drawn as input of initializeGeneralizedTrigger.
MaxTeethIn == 4

\* Raw tooth angles drawn as input: values below, inside and above one cycle,
\* both ends of the cycle, and values that normalize to the same angle.
ToothAngleValues == {-90, 0, 20, 40, 90, 180, 270, 360, 400}

\* Tooth widths drawn as input.
ToothWidthValues == {3}

\* syncToothOffset values drawn as input of initialize4Plus1Generalized.
SyncToothOffsetValues == {-90, -45, -5, 0, 5, 45, 90}

\* ------------------------------------------------------------------ floats

Flt(n, d) == [n |-> n, d |-> d]

FltOfInt(i) == Flt(i, 1)

IsNaN(x) == x.n = 0 /\ x.d = 0

\* x * y
FMul(x, y) == Flt(x.n * y.n, x.d * y.d)

\* x / y
FDiv(x, y) == Flt(x.n * y.d, x.d * y.n)

\* x < y, x <= y, x > y, x >= y, x == y: every comparison with NaN is false.
FLt(x, y) == ~IsNaN(x) /\ ~IsNaN(y) /\ x.n * y.d < y.n * x.d

FLe(x, y) == ~IsNaN(x) /\ ~IsNaN(y) /\ x.n * y.d <= y.n * x.d

FGt(x, y) == FLt(y, x)

FGe(x, y) == FLe(y, x)

FEq(x, y) == FLe(x, y) /\ FLe(y, x)

\* ------------------------------------------------- trigger_generalized.cpp

MAX_TEETH == 60

MIN_GAP_RATIO == Flt(1, 2)

MAX_GAP_RATIO == Flt(2, 1)

\* The factors of a two-gap sync window, 0.66f and 1.5f.
SyncRatioFromFactor == Flt(66, 100)

SyncRatioToFactor == Flt(3, 2)

compareFloat(fa, fb) == IF fa < fb THEN -1 ELSE IF fa > fb THEN 1 ELSE 0

RECURSIVE WhileNotPositiveAdd(_, _)
WhileNotPositiveAdd(angle, cycleDuration) ==
    IF angle <= 0 THEN WhileNotPositiveAdd(angle + cycleDuration, cycleDuration)
    ELSE angle

RECURSIVE WhileAboveSub(_, _)
WhileAboveSub(angle, cycleDuration) ==
    IF angle > cycleDuration THEN WhileAboveSub(angle - cycleDuration, cycleDuration)
    ELSE angle

normalizeAngle(angle, cycleDuration) ==
    WhileAboveSub(WhileNotPositiveAdd(angle, cycleDuration), cycleDuration)

\* A C array of n elements: a function on 0 .. n-1.
ArrayOfSeq(seq) == [i \in 0 .. Len(seq) - 1 |-> seq[i + 1]]

SeqOfArray(arr, n) == [i \in 1 .. n |-> arr[i - 1]]

\* qsort(base, n, sizeof(float), compareFloat): the elements in an order in
\* which compareFloat never finds a later one below an earlier one.
RECURSIVE InsertSorted(_, _)
InsertSorted(seq, x) ==
    IF seq = <<>> THEN <<x>>
    ELSE IF compareFloat(x, Head(seq)) < 0 THEN <<x>> \o seq
    ELSE <<Head(seq)>> \o InsertSorted(Tail(seq), x)

RECURSIVE SortAscending(_)
SortAscending(seq) ==
    IF seq = <<>> THEN <<>> ELSE InsertSorted(SortAscending(Tail(seq)), Head(seq))

qsort(arr, n) == ArrayOfSeq(SortAscending(SeqOfArray(arr, n)))

\* Lines 92-97: normalize each raw angle, then sort.
NormalizedSorted(toothAngles, numTeeth, cycleDuration) ==
    qsort([i \in 0 .. numTeeth - 1 |-> normalizeAngle(toothAngles[i], cycleDuration)],
          numTeeth)

\* Line 100.
LastTeethFullTurnOffset(sorted, numTeeth, cycleDuration) ==
    cycleDuration - sorted[numTeeth - 1]

\* Lines 101-104.
ShiftAngles(sorted, numTeeth, offset) ==
    [i \in 0 .. numTeeth - 1 |-> sorted[i] + offset]

\* The wraparound gap without the angle of the first tooth.
GapSizes_WrapToCycleEnd(sortedAngles, numTeeth, cycleDuration) ==
    [i \in 0 .. numTeeth - 1 |->
        IF i = 0 THEN cycleDuration - sortedAngles[numTeeth - 1]
        ELSE sortedAngles[i] - sortedAngles[i - 1]]

\* Lines 123-128: gap[i] is the distance from tooth[i-1] to tooth[i].
GapSizes(sortedAngles, numTeeth, cycleDuration) ==
    [i \in 0 .. numTeeth - 1 |->
        IF i = 0 THEN cycleDuration - sortedAngles[numTeeth - 1] + sortedAngles[0]
        ELSE sortedAngles[i] - sortedAngles[i - 1]]

\* Line 133.
PrevIdx(i, numTeeth) == IF i = 0 THEN numTeeth - 1 ELSE i - 1

\* The two bounds of the band taken for each other.
IsUnusualRatio_BoundsSwapped(ratio) ==
    FLe(ratio, MAX_GAP_RATIO) \/ FGe(ratio, MIN_GAP_RATIO)

\* Line 135.
IsUnusualRatio(ratio) == FLe(ratio, MIN_GAP_RATIO) \/ FGe(ratio, MAX_GAP_RATIO)

\* Lines 130-141: the GapInfo array.
GapInfos(gapSize, numTeeth) ==
    [i \in 0 .. numTeeth - 1 |->
        LET ratio == FDiv(FltOfInt(gapSize[i]), FltOfInt(gapSize[PrevIdx(i, numTeeth)]))
        IN  [gapSize |-> gapSize[i], ratio |-> ratio, isUnusual |-> IsUnusualRatio(ratio)]]

\* Lines 137-140: the indices of the unusual gaps, ascending, as an array.
RECURSIVE UnusualSeq(_, _, _)
UnusualSeq(gaps, i, numTeeth) ==
    IF i >= numTeeth THEN <<>>
    ELSE (IF gaps[i].isUnusual THEN <<i>> ELSE <<>>) \o UnusualSeq(gaps, i + 1, numTeeth)

UnusualIndices(gaps, numTeeth) == ArrayOfSeq(UnusualSeq(gaps, 0, numTeeth))

NumUnusual(gaps, numTeeth) == Len(UnusualSeq(gaps, 0, numTeeth))

\* ------------------------------------------------ TriggerWaveform (collaborator)

\* A TriggerWaveform as its constructor leaves it.
NewWaveform ==
    [operationMode |-> "OM_NONE",
     syncEdge |-> "Rise",
     events |-> <<>>,
     syncGaps |-> <<>>,
     synchronizationGap |-> <<>>,
     tdcPosition |-> 0,
     shapeDefinitionError |-> FALSE,
     needSecondTriggerInput |-> FALSE,
     useOnlyPrimaryForSync |-> FALSE,
     isSynchronizationNeeded |-> TRUE]

\* s->initialize(operationMode, syncEdge): an empty shape of that mode.
initialize(s, operationMode, syncEdge) ==
    [NewWaveform EXCEPT !.operationMode = operationMode, !.syncEdge = syncEdge]

\* The cycle of a FOUR_STROKE_CRANK_SENSOR shape, one crank revolution: a quarter
\* of it is the 90 degree pitch of trigger_4plus1.cpp:52, and
\* trigger_generalized.cpp:45 and :289 take it to be 360.
CrankSensorCycleDuration == 360

\* The cycle of a FOUR_STROKE_CAM_SENSOR shape, two crank revolutions: four
\* crank teeth per revolution are 90 degrees apart, trigger_4plus2.cpp:76-79,
\* and the shape ends at 720, trigger_4plus2.cpp:21 and :85.
CamSensorCycleDuration == 720

\* s->getCycleDuration()
getCycleDuration(s) ==
    IF s.operationMode = "FOUR_STROKE_CRANK_SENSOR"
    THEN CrankSensorCycleDuration
    ELSE CamSensorCycleDuration

addEvent(s, angle, state, channel) ==
    [s EXCEPT !.events =
        Append(@, [angle |-> angle, state |-> state, channel |-> channel])]

addEvent720(s, angle, state, channel) == addEvent(s, angle, state, channel)

\* s->addToothRiseFall(angle, width): a tooth of the primary wheel that rises
\* width degrees before angle and falls at angle.
addToothRiseFall(s, angle, width) ==
    addEvent(addEvent(s, angle - width, "RISE", "T_PRIMARY"), angle, "FALL", "T_PRIMARY")

\* s->setTriggerSynchronizationGap3(gapIndex, syncRatioFrom, syncRatioTo)
setTriggerSynchronizationGap3(s, gapIndex, syncRatioFrom, syncRatioTo) ==
    [s EXCEPT !.syncGaps =
        [i \in (DOMAIN @) \cup {gapIndex} |->
            IF i = gapIndex
            THEN [syncRatioFrom |-> syncRatioFrom, syncRatioTo |-> syncRatioTo]
            ELSE @[i]]]

\* s->setTriggerSynchronizationGap(syncRatio): the single-gap sync ratio.
setTriggerSynchronizationGap(s, syncRatio) ==
    [s EXCEPT !.synchronizationGap = <<syncRatio>>]

setShapeDefinitionError(s, value) == [s EXCEPT !.shapeDefinitionError = value]

setTdcPosition(s, value) == [s EXCEPT !.tdcPosition = value]

\* --------------------------------------- initializeGeneralizedTrigger, continued

\* Lines 60-70: the locals before anything is computed.
NoLocals ==
    [cycleDuration |-> 0,
     sortedAngles |-> <<>>,
     lastTeethFullTurnOffset |-> 0,
     gaps |-> <<>>,
     unusualIndices |-> <<>>,
     numUnusual |-> 0,
     foundTwoConsecutive |-> FALSE,
     foundTwoNonConsecutive |-> FALSE,
     gapIdx1 |-> 0,
     gapIdx2 |-> 0,
     firstSyncGapIdx |-> 0]

\* The error is reported and the shape is left valid.
FailShape_NotMarked(s, locals, message) ==
    [s |-> s, loc |-> locals, errors |-> <<message>>]

\* Line 159.
ErrNoSyncGaps == "Generalized Trigger: No sync gaps found - all gaps similar"

\* firmwareError(...); s->setShapeDefinitionError(true); return;  (lines 78-81,
\* 86-89, 158-161, 347-350, and lines 45-49 and 62-66 of trigger_4plus1.cpp)
FailShape(s, locals, message) ==
    [s |-> setShapeDefinitionError(s, TRUE), loc |-> locals, errors |-> <<message>>]

\* Lines 117-121.
RECURSIVE AddTeeth(_, _, _, _, _)
AddTeeth(s, sortedAngles, i, numTeeth, toothWidth) ==
    IF i >= numTeeth THEN s
    ELSE AddTeeth(addToothRiseFall(s, sortedAngles[i], toothWidth),
                  sortedAngles, i + 1, numTeeth, toothWidth)

\* The selection without the wraparound check of lines 177-187.
SelectSyncGaps_NoWraparound(unusualIndices, numUnusual, numTeeth) ==
    LET consecutiveAt ==
            {i \in 0 .. numUnusual - 2 :
                unusualIndices[i + 1] = (unusualIndices[i] + 1) % numTeeth}
        first == CHOOSE i \in consecutiveAt : \A j \in consecutiveAt : i <= j
    IN  IF consecutiveAt # {}
        THEN [foundTwoConsecutive |-> TRUE, foundTwoNonConsecutive |-> FALSE,
              gapIdx1 |-> unusualIndices[first], gapIdx2 |-> unusualIndices[first + 1]]
        ELSE IF numUnusual >= 2
        THEN [foundTwoConsecutive |-> FALSE, foundTwoNonConsecutive |-> TRUE,
              gapIdx1 |-> unusualIndices[0], gapIdx2 |-> unusualIndices[1]]
        ELSE [foundTwoConsecutive |-> FALSE, foundTwoNonConsecutive |-> FALSE,
              gapIdx1 |-> 0, gapIdx2 |-> 0]

\* Lines 164-195: which two gaps, if any, are used for two-gap sync.
SelectSyncGaps(unusualIndices, numUnusual, numTeeth) ==
    LET consecutiveAt ==
            {i \in 0 .. numUnusual - 2 :
                unusualIndices[i + 1] = (unusualIndices[i] + 1) % numTeeth}
        first == CHOOSE i \in consecutiveAt : \A j \in consecutiveAt : i <= j
        wraparound ==
            /\ numUnusual >= 2
            /\ unusualIndices[0] = (unusualIndices[numUnusual - 1] + 1) % numTeeth
    IN  IF consecutiveAt # {}
        THEN [foundTwoConsecutive |-> TRUE, foundTwoNonConsecutive |-> FALSE,
              gapIdx1 |-> unusualIndices[first], gapIdx2 |-> unusualIndices[first + 1]]
        ELSE IF wraparound
        THEN [foundTwoConsecutive |-> TRUE, foundTwoNonConsecutive |-> FALSE,
              gapIdx1 |-> unusualIndices[numUnusual - 1], gapIdx2 |-> unusualIndices[0]]
        ELSE IF numUnusual >= 2
        THEN [foundTwoConsecutive |-> FALSE, foundTwoNonConsecutive |-> TRUE,
              gapIdx1 |-> unusualIndices[0], gapIdx2 |-> unusualIndices[1]]
        ELSE [foundTwoConsecutive |-> FALSE, foundTwoNonConsecutive |-> FALSE,
              gapIdx1 |-> 0, gapIdx2 |-> 0]

\* One setTriggerSynchronizationGap3 call of lines 224-237: the window of the
\* gap gapIdx at sync gap index gapIndex.
GapWindow(gapIndex, gaps, gapIdx) ==
    [gapIndex |-> gapIndex,
     syncRatioFrom |-> FMul(gaps[gapIdx].ratio, SyncRatioFromFactor),
     syncRatioTo |-> FMul(gaps[gapIdx].ratio, SyncRatioToFactor)]

\* The two gaps taken for each other: gapIdx1 at index 0.
TwoGapWindows_EarlierFirst(gaps, numTeeth, gapIdx1, gapIdx2) ==
    IF gapIdx2 < gapIdx1
    THEN << GapWindow(0, gaps, gapIdx1), GapWindow(numTeeth - gapIdx1, gaps, gapIdx2) >>
    ELSE << GapWindow(0, gaps, gapIdx1), GapWindow(gapIdx2 - gapIdx1, gaps, gapIdx2) >>

\* The wraparound index counted from the last gap: numTeeth - 1 - gapIdx1.
TwoGapWindows_WrapIndexOffByOne(gaps, numTeeth, gapIdx1, gapIdx2) ==
    IF gapIdx2 < gapIdx1
    THEN << GapWindow(0, gaps, gapIdx2), GapWindow(numTeeth - 1 - gapIdx1, gaps, gapIdx1) >>
    ELSE << GapWindow(0, gaps, gapIdx2), GapWindow(gapIdx2 - gapIdx1, gaps, gapIdx1) >>

\* Lines 220-239: the two setTriggerSynchronizationGap3 calls, in order.
TwoGapWindows(gaps, numTeeth, gapIdx1, gapIdx2) ==
    IF gapIdx2 < gapIdx1
    THEN << GapWindow(0, gaps, gapIdx2), GapWindow(numTeeth - gapIdx1, gaps, gapIdx1) >>
    ELSE << GapWindow(0, gaps, gapIdx2), GapWindow(gapIdx2 - gapIdx1, gaps, gapIdx1) >>

RECURSIVE SetWindows(_, _)
SetWindows(s, windows) ==
    IF windows = <<>> THEN s
    ELSE SetWindows(setTriggerSynchronizationGap3(s, Head(windows).gapIndex,
                        Head(windows).syncRatioFrom, Head(windows).syncRatioTo),
                    Tail(windows))

\* Lines 265-267.
Deviation(ratio) ==
    IF FGt(ratio, FltOfInt(1)) THEN ratio ELSE FDiv(FltOfInt(1), ratio)

\* Lines 260-274: the unusual gap whose ratio is furthest from 1.
RECURSIVE MostUnusual(_, _, _, _, _, _)
MostUnusual(gaps, unusualIndices, numUnusual, i, maxDeviation, syncGapIdx) ==
    IF i >= numUnusual THEN syncGapIdx
    ELSE LET deviation == Deviation(gaps[unusualIndices[i]].ratio)
         IN  IF FGt(deviation, maxDeviation)
             THEN MostUnusual(gaps, unusualIndices, numUnusual, i + 1,
                              deviation, unusualIndices[i])
             ELSE MostUnusual(gaps, unusualIndices, numUnusual, i + 1,
                              maxDeviation, syncGapIdx)

\* Lines 291-292.
RECURSIVE TdcWhileAboveSub(_, _)
TdcWhileAboveSub(tdcPosition, cycleDuration) ==
    IF tdcPosition > cycleDuration
    THEN TdcWhileAboveSub(tdcPosition - cycleDuration, cycleDuration)
    ELSE tdcPosition

\* Lines 293-294.
RECURSIVE TdcWhileBelowAdd(_, _)
TdcWhileBelowAdd(tdcPosition, cycleDuration) ==
    IF tdcPosition < cycleDuration
    THEN TdcWhileBelowAdd(tdcPosition + cycleDuration, cycleDuration)
    ELSE tdcPosition

\* Line 290.
TdcBeforeWrap(cycleDuration, syncToothAngle, lastTeethFullTurnOffset) ==
    cycleDuration - (syncToothAngle - lastTeethFullTurnOffset)

\* Lines 289-294.
TdcPosition(cycleDuration, syncToothAngle, lastTeethFullTurnOffset) ==
    TdcWhileBelowAdd(
        TdcWhileAboveSub(
            TdcBeforeWrap(cycleDuration, syncToothAngle, lastTeethFullTurnOffset),
            cycleDuration),
        cycleDuration)

\* Lines 217-287: the sync configuration; gives the shape and firstSyncGapIdx.
ConfigureSync(s, gaps, unusualIndices, numUnusual, numTeeth, sel) ==
    IF sel.foundTwoConsecutive \/ sel.foundTwoNonConsecutive
    THEN [s |-> SetWindows(s, TwoGapWindows(gaps, numTeeth, sel.gapIdx1, sel.gapIdx2)),
          firstSyncGapIdx |-> sel.gapIdx2]
    ELSE LET syncGapIdx == MostUnusual(gaps, unusualIndices, numUnusual, 0,
                                       FltOfInt(0), unusualIndices[0])
         IN  [s |-> setTriggerSynchronizationGap(s, gaps[syncGapIdx].ratio),
              firstSyncGapIdx |-> syncGapIdx]

\* initializeGeneralizedTrigger(s, toothAngles, numTeeth, toothWidth): the shape
\* it leaves, its locals and the firmwareError it reports, if any.
initializeGeneralizedTrigger(s0, toothAngles, numTeeth, toothWidth) ==
    LET s1 == initialize(s0, "FOUR_STROKE_CRANK_SENSOR", "RiseOnly")
        cycleDuration == getCycleDuration(s1)
        sorted == NormalizedSorted(toothAngles, numTeeth, cycleDuration)
        offset == LastTeethFullTurnOffset(sorted, numTeeth, cycleDuration)
        sortedAngles == ShiftAngles(sorted, numTeeth, offset)
        s2 == AddTeeth(s1, sortedAngles, 0, numTeeth, toothWidth)
        gaps == GapInfos(GapSizes(sortedAngles, numTeeth, cycleDuration), numTeeth)
        unusualIndices == UnusualIndices(gaps, numTeeth)
        numUnusual == NumUnusual(gaps, numTeeth)
        analysed == [NoLocals EXCEPT !.cycleDuration = cycleDuration,
                                     !.sortedAngles = sortedAngles,
                                     !.lastTeethFullTurnOffset = offset,
                                     !.gaps = gaps,
                                     !.unusualIndices = unusualIndices,
                                     !.numUnusual = numUnusual]
        sel == SelectSyncGaps(unusualIndices, numUnusual, numTeeth)
        cfg == ConfigureSync(s2, gaps, unusualIndices, numUnusual, numTeeth, sel)
    IN  IF numTeeth = 0
        THEN FailShape(s1, [NoLocals EXCEPT !.cycleDuration = cycleDuration],
                       "Generalized Trigger: No tooth angles provided")
        ELSE IF numTeeth > MAX_TEETH
        THEN FailShape(s1, [NoLocals EXCEPT !.cycleDuration = cycleDuration],
                       "Generalized Trigger: Too many teeth")
        ELSE IF numUnusual = 0
        THEN FailShape(s2, analysed, ErrNoSyncGaps)
        ELSE [s |-> setTdcPosition(cfg.s,
                        TdcPosition(cycleDuration, sortedAngles[cfg.firstSyncGapIdx],
                                    offset)),
              loc |-> [analysed EXCEPT !.foundTwoConsecutive = sel.foundTwoConsecutive,
                                       !.foundTwoNonConsecutive = sel.foundTwoNonConsecutive,
                                       !.gapIdx1 = sel.gapIdx1,
                                       !.gapIdx2 = sel.gapIdx2,
                                       !.firstSyncGapIdx = cfg.firstSyncGapIdx],
              errors |-> <<>>]

\* Line 311.
REGULAR_TOOTH_ANGLE == 90

\* Lines 354-378: the five tooth angles of the 4+1 pattern for a non-zero offset.
FourPlusOneAngles(syncToothOffset) ==
    IF syncToothOffset > 0
    THEN ArrayOfSeq(<< 0,
                       REGULAR_TOOTH_ANGLE - syncToothOffset,
                       REGULAR_TOOTH_ANGLE + (REGULAR_TOOTH_ANGLE - syncToothOffset),
                       2 * REGULAR_TOOTH_ANGLE + (REGULAR_TOOTH_ANGLE - syncToothOffset),
                       3 * REGULAR_TOOTH_ANGLE + (REGULAR_TOOTH_ANGLE - syncToothOffset) >>)
    ELSE LET offset == -syncToothOffset
         IN  ArrayOfSeq(<< 0,
                           offset,
                           REGULAR_TOOTH_ANGLE + offset,
                           2 * REGULAR_TOOTH_ANGLE + offset,
                           3 * REGULAR_TOOTH_ANGLE + offset >>)

\* initialize4Plus1Generalized(s, syncToothOffset), in a build with or without
\* EFI_UNIT_TEST.  With a zero offset the unit-test build leaves numTeeth at 0
\* and calls on; the firmware build reports the error and returns.
initialize4Plus1Generalized(s0, syncToothOffset, unitTest) ==
    IF syncToothOffset = 0
    THEN IF unitTest
         THEN initializeGeneralizedTrigger(s0, <<>>, 0, 3)
         ELSE FailShape(s0, NoLocals, "Generalized Trigger: Sync offset must be non zero")
    ELSE initializeGeneralizedTrigger(s0, FourPlusOneAngles(syncToothOffset), 5, 3)

\* ------------------------------------------------------ trigger_4plus1.cpp

\* With the constants of the code no unsigned expression of these builders
\* leaves 0 .. 2^31 - 1, except SYNC_TOOTH_OFFSET - REGULAR_TOOTH_ANGLE of line
\* 115, whose wrapped value is stored in an int and is the same negative
\* number again: unsigned arithmetic is written as integer arithmetic.
Abs(x) == IF x < 0 THEN -x ELSE x

NUM_REGULAR_TEETH == 4

SYNC_TOOTH_OFFSET == 5

TOOTH_WIDTH == 3

SYNC_TOOTH_INDEX == 2

\* Line 71: MIN_GAP_RATIO = 3.0f of initialize4Plus1.
MIN_GAP_RATIO_4PLUS1 == 3

\* Lines 78-89: the regular teeth, the sync tooth before the regular tooth
\* whose interval holds it.
RECURSIVE AddTeeth4Plus1(_, _, _, _)
AddTeeth4Plus1(s, i, regularToothAngle, syncToothAngle) ==
    IF i > NUM_REGULAR_TEETH THEN s
    ELSE LET currToothAngle == (i * regularToothAngle)
             withSync ==
                 IF /\ syncToothAngle < currToothAngle
                    /\ syncToothAngle > (currToothAngle - regularToothAngle)
                 THEN addToothRiseFall(s, syncToothAngle, TOOTH_WIDTH)
                 ELSE s
         IN  AddTeeth4Plus1(addToothRiseFall(withSync, currToothAngle, TOOTH_WIDTH),
                            i + 1, regularToothAngle, syncToothAngle)

\* Lines 94-123: the sync windows of a positive offset and the TDC compensation.
SyncPositiveOffset(s, regularToothAngle) ==
    LET shortGap == (SYNC_TOOTH_OFFSET)
        longGap == (regularToothAngle - SYNC_TOOTH_OFFSET)
        longOverShort == FDiv(FltOfInt(longGap), FltOfInt(shortGap))
        shortOverRegular == FDiv(FltOfInt(shortGap), FltOfInt(regularToothAngle))
        twoGap == longGap > MIN_GAP_RATIO_4PLUS1 * shortGap
        s1 == IF twoGap
              THEN setTriggerSynchronizationGap3(s, 0,
                       FMul(longOverShort, SyncRatioFromFactor),
                       FMul(longOverShort, SyncRatioToFactor))
              ELSE s
        gapIndex == IF twoGap THEN 1 ELSE 0
    IN  [s |-> setTriggerSynchronizationGap3(s1, gapIndex,
                   FMul(shortOverRegular, SyncRatioFromFactor),
                   FMul(shortOverRegular, SyncRatioToFactor)),
         tdcPositionOffset |->
             IF twoGap THEN 0 ELSE (SYNC_TOOTH_OFFSET - regularToothAngle)]

\* Lines 124-144: the sync configuration of a negative (or zero) offset.
SyncNegativeOffset(s, regularToothAngle) ==
    LET shortGap == (Abs(SYNC_TOOTH_OFFSET))
        longGap == regularToothAngle
        preceding == (longGap + SYNC_TOOTH_OFFSET)
        shortOverPreceding == FDiv(FltOfInt(shortGap), FltOfInt(preceding))
        s1 == setTriggerSynchronizationGap(s, FDiv(FltOfInt(longGap), FltOfInt(shortGap)))
    IN  [s |-> IF preceding > MIN_GAP_RATIO_4PLUS1 * shortGap
               THEN setTriggerSynchronizationGap3(s1, 1,
                        FMul(shortOverPreceding, SyncRatioFromFactor),
                        FMul(shortOverPreceding, SyncRatioToFactor))
               ELSE s1,
         tdcPositionOffset |-> 0]

\* The sync tooth offset with the wrong sign.
TdcPosition4Plus1_OffsetSubtracted(cycleDuration, regularToothAngle, tdcPositionOffset) ==
    cycleDuration - regularToothAngle - SYNC_TOOTH_OFFSET - tdcPositionOffset

\* Line 148.
TdcPosition4Plus1(cycleDuration, regularToothAngle, tdcPositionOffset) ==
    cycleDuration - regularToothAngle + SYNC_TOOTH_OFFSET - tdcPositionOffset

\* initialize4Plus1(s)
initialize4Plus1(s0) ==
    LET s1 == initialize(s0, "FOUR_STROKE_CRANK_SENSOR", "RiseOnly")
        cycleDuration == getCycleDuration(s1)
        regularToothAngle == cycleDuration \div NUM_REGULAR_TEETH
        syncToothAngle == (SYNC_TOOTH_INDEX * regularToothAngle + SYNC_TOOTH_OFFSET)
        s2 == AddTeeth4Plus1(s1, 1, regularToothAngle, syncToothAngle)
        sync == IF SYNC_TOOTH_OFFSET > 0
                THEN SyncPositiveOffset(s2, regularToothAngle)
                ELSE SyncNegativeOffset(s2, regularToothAngle)
    IN  IF (cycleDuration) % NUM_REGULAR_TEETH # 0
        THEN FailShape(s1, NoLocals,
                       "4+1 Trigger: Cycle duration must be evenly divisible by teeth")
        ELSE IF (Abs(SYNC_TOOTH_OFFSET)) >= regularToothAngle \div 2
        THEN FailShape(s1, NoLocals,
                       "4+1 Trigger: SYNC_TOOTH_OFFSET must be within half of tooth spacing")
        ELSE [s |-> setTdcPosition(sync.s,
                        TdcPosition4Plus1(cycleDuration, regularToothAngle,
                                          sync.tdcPositionOffset)),
              loc |-> NoLocals,
              errors |-> <<>>]

\* ------------------------------------------------------ trigger_4plus2.cpp

\* Lines 42-52.
CrankPulse(s, idx, crankToothAngle, toothWidth) ==
    addEvent720(
        addEvent720(s, (crankToothAngle * idx - toothWidth), "RISE", "T_SECONDARY"),
        (crankToothAngle * idx), "FALL", "T_SECONDARY")

\* Lines 54-65.
CamPulse(s, idx, offset, camToothAngle, toothWidth) ==
    addEvent720(
        addEvent720(s, (camToothAngle * idx + offset - toothWidth), "RISE", "T_PRIMARY"),
        (camToothAngle * idx + offset), "FALL", "T_PRIMARY")

\* The loops of lines 102-103 and 107-108.
RECURSIVE CrankPulses(_, _, _, _, _)
CrankPulses(s, i, last, crankToothAngle, toothWidth) ==
    IF i > last THEN s
    ELSE CrankPulses(CrankPulse(s, i, crankToothAngle, toothWidth),
                     i + 1, last, crankToothAngle, toothWidth)

\* Line 72.
CamOffset1 == 50

\* Line 73.
CamOffset2 == (CamOffset1 + 180)

\* The first cam tooth taken as the reference point.
TdcPosition4Plus2_FirstCamTooth == 720 - CamOffset1

\* Line 85: the distance from the reference point for sync to the next TDC.
TdcPosition4Plus2 == 720 - CamOffset2

\* The pitch of four teeth over the whole cycle instead of one revolution.
CrankToothAngle_WholeCycle(cycleDuration, countCrankTooth) ==
    cycleDuration \div countCrankTooth

\* Line 79.
CrankToothAngle(cycleDuration, countCrankTooth) ==
    (cycleDuration \div 2) \div countCrankTooth

\* initialize4Plus2(s)
initialize4Plus2(s0) ==
    LET s1 == initialize(s0, "FOUR_STROKE_CAM_SENSOR", "RiseOnly")
        countCrankTooth == 4
        crankToothAngle == CrankToothAngle(getCycleDuration(s1), countCrankTooth)
        camToothAngle == 180
        toothWidth == 5
        s2 == [setTdcPosition(s1, TdcPosition4Plus2)
                  EXCEPT !.needSecondTriggerInput = TRUE,
                         !.useOnlyPrimaryForSync = FALSE,
                         !.isSynchronizationNeeded = FALSE]
        s3 == CamPulse(s2, 0, CamOffset1, camToothAngle, toothWidth)
        s4 == CrankPulses(s3, 1, 2, crankToothAngle, toothWidth)
        s5 == CamPulse(s4, 1, CamOffset1, camToothAngle, toothWidth)
        s6 == CrankPulses(s5, 3, 8, crankToothAngle, toothWidth)
        s7 == setTriggerSynchronizationGap3(s6, 0, Flt(25, 100), Flt(75, 100))
    IN  [s |-> setTriggerSynchronizationGap3(s7, 1, Flt(15, 10), Flt(35, 10)),
         loc |-> NoLocals,
         errors |-> <<>>]

\* ------------------------------------------------------------ state machine

VARIABLES
    pc,      \* "constructed": no builder has run; "configured": one has returned
    call,    \* the builder that ran and its arguments
    s,       \* the TriggerWaveform
    loc,     \* the locals of initializeGeneralizedTrigger when it returned
    errors   \* the firmwareError messages reported

vars == << pc, call, s, loc, errors >>

NoCall ==
    [builder |-> "none", toothAngles |-> <<>>, numTeeth |-> 0, toothWidth |-> 0,
     syncToothOffset |-> 0, unitTest |-> FALSE]

\* numTeeth values drawn as input: every length of a drawn list, and one more
\* than MAX_TEETH, for which the list is never read.
NumTeethValues == (0 .. MaxTeethIn) \cup {MAX_TEETH + 1}

ToothAngleArrays(numTeeth) ==
    IF numTeeth > MAX_TEETH THEN {<<>>}
    ELSE [0 .. numTeeth - 1 -> ToothAngleValues]

Init ==
    /\ pc = "constructed"
    /\ call = NoCall
    /\ s = NewWaveform
    /\ loc = NoLocals
    /\ errors = <<>>

Return(result) ==
    /\ pc' = "configured"
    /\ s' = result.s
    /\ loc' = result.loc
    /\ errors' = errors \o result.errors

CallInitializeGeneralizedTrigger ==
    /\ pc = "constructed"
    /\ \E numTeeth \in NumTeethValues, toothWidth \in ToothWidthValues :
        \E toothAngles \in ToothAngleArrays(numTeeth) :
            /\ call' = [NoCall EXCEPT !.builder = "initializeGeneralizedTrigger",
                                      !.toothAngles = toothAngles,
                                      !.numTeeth = numTeeth,
                                      !.toothWidth = toothWidth]
            /\ Return(initializeGeneralizedTrigger(s, toothAngles, numTeeth, toothWidth))

CallInitialize4Plus1Generalized ==
    /\ pc = "constructed"
    /\ \E syncToothOffset \in SyncToothOffsetValues, unitTest \in BOOLEAN :
            /\ call' = [NoCall EXCEPT !.builder = "initialize4Plus1Generalized",
                                      !.toothAngles =
                                          IF syncToothOffset = 0 THEN <<>>
                                          ELSE FourPlusOneAngles(syncToothOffset),
                                      !.numTeeth = IF syncToothOffset = 0 THEN 0 ELSE 5,
                                      !.toothWidth = 3,
                                      !.syncToothOffset = syncToothOffset,
                                      !.unitTest = unitTest]
            /\ Return(initialize4Plus1Generalized(s, syncToothOffset, unitTest))

CallInitialize4Plus1 ==
    /\ pc = "constructed"
    /\ call' = [NoCall EXCEPT !.builder = "initialize4Plus1"]
    /\ Return(initialize4Plus1(s))

CallInitialize4Plus2 ==
    /\ pc = "constructed"
    /\ call' = [NoCall EXCEPT !.builder = "initialize4Plus2"]
    /\ Return(initialize4Plus2(s))

Next ==
    \/ CallInitializeGeneralizedTrigger
    \/ CallInitialize4Plus1Generalized
    \/ CallInitialize4Plus1
    \/ CallInitialize4Plus2

Spec == Init /\ [][Next]_vars

\* ------------------------------------------------------------------ claims

\* initializeGeneralizedTrigger has run and returned.
RanGeneralized ==
    /\ pc = "configured"
    /\ \/ call.builder = "initializeGeneralizedTrigger"
       \/ /\ call.builder = "initialize4Plus1Generalized"
          /\ (call.syncToothOffset # 0 \/ call.unitTest)

\* ... with a tooth list that passed the validation of lines 75-90.
Accepted == RanGeneralized /\ call.numTeeth \in 1 .. MAX_TEETH

\* ... and configured a sync strategy.
Synced == Accepted /\ ~s.shapeDefinitionError

\* The angles of the teeth of a wheel of the waveform, in the order added.
TeethOf(channel) ==
    LET falls == SelectSeq(s.events,
                     LAMBDA e : e.state = "FALL" /\ e.channel = channel)
    IN  [i \in 1 .. Len(falls) |-> falls[i].angle]

StrictlyIncreasing(seq) == \A i \in 1 .. Len(seq) - 1 : seq[i] < seq[i + 1]

\* Two of the raw angles of the call normalize to the same angle.
HasDuplicateTeeth ==
    \E i, j \in DOMAIN call.toothAngles :
        /\ i < j
        /\ normalizeAngle(call.toothAngles[i], loc.cycleDuration)
               = normalizeAngle(call.toothAngles[j], loc.cycleDuration)

\* C1: for every accepted list of raw tooth angles, the tooth angles added to
\* the waveform are strictly increasing (no two equal) and the last one is
\* cycleDuration.
C1_TeethStrictlyIncreasing ==
    Accepted =>
        /\ Len(TeethOf("T_PRIMARY")) = call.numTeeth
        /\ StrictlyIncreasing(TeethOf("T_PRIMARY"))
        /\ TeethOf("T_PRIMARY")[call.numTeeth] = loc.cycleDuration

\* C2: the tdcPosition written by initializeGeneralizedTrigger is
\* cycleDuration - (syncToothAngle - normalizationOffset) wrapped into
\* (0, cycleDuration], so 0 < tdcPosition <= cycleDuration.
C2_TdcWrappedIntoCycle ==
    Synced =>
        /\ s.tdcPosition =
               normalizeAngle(
                   loc.cycleDuration
                       - (loc.sortedAngles[loc.firstSyncGapIdx]
                              - loc.lastTeethFullTurnOffset),
                   loc.cycleDuration)
        /\ s.tdcPosition > 0
        /\ s.tdcPosition <= loc.cycleDuration

\* A builder reported a configuration error.
Failed == pc = "configured" /\ errors # <<>>

NoSyncConfigured ==
    /\ s.syncGaps = <<>>
    /\ s.synchronizationGap = <<>>
    /\ s.tdcPosition = NewWaveform.tdcPosition

\* C3, as claimed: on every configuration error the shape is marked invalid,
\* no tooth event has been added, no sync window is set and tdcPosition is not
\* written.
C3_ErrorLeavesNothing ==
    Failed =>
        /\ s.shapeDefinitionError
        /\ s.events = <<>>
        /\ NoSyncConfigured

\* C3, amended: on every configuration error the shape is marked invalid, no
\* sync window is set and tdcPosition is not written; no tooth event has been
\* added, except on the no-unusual-gap error of initializeGeneralizedTrigger,
\* which is found after all numTeeth teeth were added.  A shape is marked
\* invalid only with an error reported.
C3_ErrorLeavesNoSync ==
    /\ Failed =>
          /\ s.shapeDefinitionError
          /\ NoSyncConfigured
          /\ IF RanGeneralized /\ errors = <<ErrNoSyncGaps>>
             THEN /\ Accepted
                  /\ loc.numUnusual = 0
                  /\ Len(TeethOf("T_PRIMARY")) = call.numTeeth
                  /\ Len(s.events) = 2 * call.numTeeth
             ELSE s.events = <<>>
    /\ s.shapeDefinitionError => Failed

C3_Witness ==
    /\ Failed
    /\ s.shapeDefinitionError
    /\ errors = <<ErrNoSyncGaps>>
    /\ call.numTeeth = 4
    /\ Len(s.events) = 8

\* Every gap between neighbouring teeth of the waveform, the wraparound gap
\* included, is the same.
EquallySpaced ==
    LET teeth == TeethOf("T_PRIMARY")
        n == Len(teeth)
    IN  /\ n >= 1
        /\ \A i \in 1 .. n - 1 :
               teeth[i + 1] - teeth[i] = teeth[1] + loc.cycleDuration - teeth[n]

\* C4: for a wheel whose teeth are all equally spaced no gap is flagged unusual
\* (no ratio <= 0.5 or >= 2.0), the no-sync-signature error is reported, the
\* shape is marked invalid and no sync window is configured.
C4_EquallySpacedHasNoSync ==
    (Accepted /\ EquallySpaced) =>
        /\ loc.numUnusual = 0
        /\ \A i \in DOMAIN loc.gaps :
               /\ ~loc.gaps[i].isUnusual
               /\ ~FLe(loc.gaps[i].ratio, Flt(1, 2))
               /\ ~FGe(loc.gaps[i].ratio, Flt(2, 1))
        /\ errors = <<ErrNoSyncGaps>>
        /\ s.shapeDefinitionError
        /\ s.syncGaps = <<>>
        /\ s.synchronizationGap = <<>>

C4_Witness ==
    /\ Accepted
    /\ EquallySpaced
    /\ call.numTeeth = 4
    /\ TeethOf("T_PRIMARY") = <<90, 180, 270, 360>>

\* The bounds [ratio * 0.66, ratio * 1.5] of gap g, as the code computes them.
GapWindowBounds(gaps, g) ==
    [syncRatioFrom |-> GapWindow(0, gaps, g).syncRatioFrom,
     syncRatioTo |-> GapWindow(0, gaps, g).syncRatioTo]

RECURSIVE SumGapSizes(_, _)
SumGapSizes(gaps, n) ==
    IF n = 0 THEN 0 ELSE gaps[n - 1].gapSize + SumGapSizes(gaps, n - 1)

\* C5: for every accepted tooth list the gap sizes computed,
\* gap[0] = cycleDuration - angle[N-1] + angle[0] and
\* gap[i] = angle[i] - angle[i-1], sum to cycleDuration.
C5_GapsSumToCycle ==
    Accepted =>
        /\ DOMAIN loc.gaps = 0 .. call.numTeeth - 1
        /\ SumGapSizes(loc.gaps, call.numTeeth) = loc.cycleDuration

C5_Witness ==
    /\ Accepted
    /\ call.numTeeth >= 3
    /\ loc.lastTeethFullTurnOffset > 0
    /\ \A i \in DOMAIN loc.gaps : loc.gaps[i].gapSize > 0
    /\ \E i, j \in DOMAIN loc.gaps : loc.gaps[i].gapSize # loc.gaps[j].gapSize

\* The sync window at index k is the window [ratio * 0.66, ratio * 1.5] of
\* gap g.
WindowIsOfGap(k, g) ==
    /\ k \in DOMAIN s.syncGaps
    /\ FEq(s.syncGaps[k].syncRatioFrom, FMul(loc.gaps[g].ratio, Flt(66, 100)))
    /\ FEq(s.syncGaps[k].syncRatioTo, FMul(loc.gaps[g].ratio, Flt(3, 2)))

\* C6: every sync window initializeGeneralizedTrigger configures is
\* [ratio * 0.66, ratio * 1.5] of a selected gap's ratio-to-previous and has
\* 0 < minRatio < maxRatio, for every accepted tooth list.
C6_WindowBounds ==
    Synced =>
        \A k \in DOMAIN s.syncGaps :
            /\ \E g \in {loc.gapIdx1, loc.gapIdx2} : WindowIsOfGap(k, g)
            /\ FLt(FltOfInt(0), s.syncGaps[k].syncRatioFrom)
            /\ FLt(s.syncGaps[k].syncRatioFrom, s.syncGaps[k].syncRatioTo)

Ran4Plus2 == pc = "configured" /\ call.builder = "initialize4Plus2"

\* C7, as claimed: the tdcPosition of initialize4Plus2 is the distance from
\* the first primary (cam) tooth, at 50 degrees, to the end of the 720 degree
\* cycle.
C7_TdcFromFirstCamTooth ==
    Ran4Plus2 =>
        /\ TeethOf("T_PRIMARY")[1] = 50
        /\ s.tdcPosition = 720 - TeethOf("T_PRIMARY")[1]

\* C7, amended: the tdcPosition of initialize4Plus2 is the distance from the
\* second primary (cam) tooth, at 230 degrees, to the end of the 720 degree
\* cycle, which is 490.
C7_TdcFromSecondCamTooth ==
    Ran4Plus2 =>
        /\ Len(TeethOf("T_PRIMARY")) = 2
        /\ TeethOf("T_PRIMARY")[2] = 230
        /\ s.tdcPosition = 720 - TeethOf("T_PRIMARY")[2]
        /\ s.tdcPosition = 490

C7_Witness == Ran4Plus2 /\ s.tdcPosition # NewWaveform.tdcPosition

\* The secondary teeth after angle from, up to angle to.
SecondaryTeethBetween(from, to) ==
    LET teeth == TeethOf("T_SECONDARY")
    IN  Cardinality({i \in 1 .. Len(teeth) : from < teeth[i] /\ teeth[i] <= to})

\* C8: the event angles of initialize4Plus2 are strictly increasing and end at
\* 720; exactly 2 secondary (crank) teeth lie between the first and the second
\* primary (cam) tooth and exactly 6 between the second and the wrap back to
\* the first.
C8_TwoThenSixCrankTeeth ==
    Ran4Plus2 =>
        LET cam == TeethOf("T_PRIMARY")
        IN  /\ StrictlyIncreasing([i \in 1 .. Len(s.events) |-> s.events[i].angle])
            /\ s.events[Len(s.events)].angle = 720
            /\ Len(cam) = 2
            /\ SecondaryTeethBetween(cam[1], cam[2]) = 2
            /\ SecondaryTeethBetween(cam[2], 720) + SecondaryTeethBetween(0, cam[1]) = 6
            /\ SecondaryTeethBetween(0, cam[1]) = 0
            /\ Len(TeethOf("T_SECONDARY")) = 8

C8_Witness == Ran4Plus2 /\ Len(s.events) = 20

Ran4Plus1 == pc = "configured" /\ call.builder = "initialize4Plus1"

\* What C9 says of the teeth and the windows: pitch 90 and offset +5 give a
\* short gap of 5 and a long gap of 85, window 0 around 85/5 and window 1
\* around 5/90, each [ratio * 0.66, ratio * 1.5], and no single-gap sync.
FourPlusOneTwoGapSync ==
    LET teeth == TeethOf("T_PRIMARY")
    IN  /\ ~s.shapeDefinitionError
        /\ teeth = <<90, 180, 185, 270, 360>>
        /\ teeth[3] - teeth[2] = 5
        /\ teeth[4] - teeth[3] = 85
        /\ DOMAIN s.syncGaps = {0, 1}
        /\ FEq(s.syncGaps[0].syncRatioFrom, FMul(Flt(85, 5), Flt(66, 100)))
        /\ FEq(s.syncGaps[0].syncRatioTo, FMul(Flt(85, 5), Flt(3, 2)))
        /\ FEq(s.syncGaps[1].syncRatioFrom, FMul(Flt(5, 90), Flt(66, 100)))
        /\ FEq(s.syncGaps[1].syncRatioTo, FMul(Flt(5, 90), Flt(3, 2)))
        /\ s.synchronizationGap = <<>>

\* C9, as claimed: initialize4Plus1 configures that two-gap sync and sets
\* tdcPosition = cycleDuration - 90 + 5, which is 635 for a 720 degree cycle.
C9_Tdc635 ==
    Ran4Plus1 =>
        /\ FourPlusOneTwoGapSync
        /\ s.tdcPosition = getCycleDuration(s) - 90 + 5
        /\ getCycleDuration(s) = 720
        /\ s.tdcPosition = 635

\* C9, amended: initialize4Plus1 configures that two-gap sync and sets
\* tdcPosition = cycleDuration - 90 + 5, which is 275 for the 360 degree cycle
\* whose quarter is the 90 degree pitch.
C9_Tdc275 ==
    Ran4Plus1 =>
        /\ FourPlusOneTwoGapSync
        /\ s.tdcPosition = getCycleDuration(s) - 90 + 5
        /\ getCycleDuration(s) = 4 * 90
        /\ s.tdcPosition = 275

C9_Witness == Ran4Plus1 /\ DOMAIN s.syncGaps = {0, 1} /\ s.tdcPosition > 0

\* Two consecutive unusual gaps were selected: gapIdx1, then gapIdx2.
TwoConsecutive == Synced /\ loc.foundTwoConsecutive

\* The rotational distance from gap gapIdx1 on to gap gapIdx2.
RotationalDistance == (loc.gapIdx2 - loc.gapIdx1) % call.numTeeth

\* C10, as claimed: of two consecutive unusual gaps the earlier one in
\* rotational order is configured as sync window 0 and the later one as the
\* second window, at the index that is their rotational distance.
C10_EarlierGapIsWindowZero ==
    TwoConsecutive =>
        /\ WindowIsOfGap(0, loc.gapIdx1)
        /\ WindowIsOfGap(RotationalDistance, loc.gapIdx2)

\* C10, amended: of two consecutive unusual gaps the later one in rotational
\* order (gapIdx2, the current gap) is configured as sync window 0 and the
\* earlier one (gapIdx1, the previous gap) as the second window, at the index
\* that is their rotational distance, 1.
C10_LaterGapIsWindowZero ==
    TwoConsecutive =>
        /\ loc.gapIdx2 = (loc.gapIdx1 + 1) % call.numTeeth
        /\ RotationalDistance = 1
        /\ DOMAIN s.syncGaps = {0, RotationalDistance}
        /\ WindowIsOfGap(0, loc.gapIdx2)
        /\ WindowIsOfGap(RotationalDistance, loc.gapIdx1)

C10_Witness ==
    /\ TwoConsecutive
    /\ ~HasDuplicateTeeth
    /\ loc.gapIdx2 < loc.gapIdx1
    /\ ~FEq(loc.gaps[loc.gapIdx1].ratio, loc.gaps[loc.gapIdx2].ratio)

\* Gap i and the gap after it, by wraparound after the last, are two unusual
\* gaps.
AdjacentUnusualAt(i) ==
    /\ call.numTeeth >= 2
    /\ loc.gaps[i].isUnusual
    /\ loc.gaps[(i + 1) % call.numTeeth].isUnusual

AdjacentPairExists == \E i \in DOMAIN loc.gaps : AdjacentUnusualAt(i)

TwoGapSync == Synced /\ (loc.foundTwoConsecutive \/ loc.foundTwoNonConsecutive)

\* The index of the second sync window: gapIdx2 - gapIdx1, or
\* numTeeth - gapIdx1 in the wraparound case.
SecondWindowIndex ==
    IF loc.gapIdx2 < loc.gapIdx1
    THEN call.numTeeth - loc.gapIdx1
    ELSE loc.gapIdx2 - loc.gapIdx1

\* The sync windows are those of the gaps gapIdx2, at index 0, and gapIdx1.
WindowsOfSelectedGaps ==
    /\ DOMAIN s.syncGaps = {0, SecondWindowIndex}
    /\ WindowIsOfGap(0, loc.gapIdx2)
    /\ WindowIsOfGap(SecondWindowIndex, loc.gapIdx1)
    /\ s.synchronizationGap = <<>>

\* C11: strategy selection follows strict priority.  Whenever two unusual gaps
\* are adjacent (i and i+1, or N-1 and 0), the two gaps used for the sync
\* windows are such an adjacent pair; the first two unusual gaps are used as a
\* non-adjacent pair only when no adjacent pair exists; single-gap sync is
\* configured only when neither two-gap case applies.
C11_StrictPriority ==
    Synced =>
        /\ AdjacentPairExists =>
              /\ loc.foundTwoConsecutive /\ ~loc.foundTwoNonConsecutive
              /\ AdjacentUnusualAt(loc.gapIdx1)
              /\ loc.gapIdx2 = (loc.gapIdx1 + 1) % call.numTeeth
              /\ WindowsOfSelectedGaps
        /\ (~AdjacentPairExists /\ loc.numUnusual >= 2) =>
              /\ loc.foundTwoNonConsecutive /\ ~loc.foundTwoConsecutive
              /\ loc.gapIdx1 = loc.unusualIndices[0]
              /\ loc.gapIdx2 = loc.unusualIndices[1]
              /\ WindowsOfSelectedGaps
        /\ loc.foundTwoNonConsecutive => ~AdjacentPairExists
        /\ loc.foundTwoConsecutive => AdjacentPairExists
        /\ s.synchronizationGap # <<>> =>
              /\ ~AdjacentPairExists
              /\ loc.numUnusual = 1
              /\ ~loc.foundTwoConsecutive /\ ~loc.foundTwoNonConsecutive
              /\ s.syncGaps = <<>>
              /\ s.synchronizationGap = <<loc.gaps[loc.unusualIndices[0]].ratio>>
        /\ s.synchronizationGap = <<>> => TwoGapSync

\* An adjacent pair exists that is not the first two unusual gaps.
C11_Witness ==
    /\ Synced
    /\ ~HasDuplicateTeeth
    /\ loc.numUnusual >= 3
    /\ AdjacentPairExists
    /\ ~AdjacentUnusualAt(loc.unusualIndices[0])
    /\ loc.gapIdx2 # loc.unusualIndices[1]

\* C12: whenever the two-gap strategy is used the two sync-window gap indices
\* are distinct: the first is 0 and the second, gapIdx2 - gapIdx1 or
\* numTeeth - gapIdx1 in the wraparound case, is at least 1, so the second
\* window never overwrites the first.
C12_WindowIndicesDistinct ==
    TwoGapSync =>
        /\ SecondWindowIndex >= 1
        /\ Cardinality(DOMAIN s.syncGaps) = 2
        /\ 0 \in DOMAIN s.syncGaps
        /\ SecondWindowIndex \in DOMAIN s.syncGaps
        /\ s.syncGaps[0] = GapWindowBounds(loc.gaps, loc.gapIdx2)

C12_Witness ==
    /\ TwoGapSync
    /\ ~HasDuplicateTeeth
    /\ loc.gapIdx2 < loc.gapIdx1
    /\ call.numTeeth - loc.gapIdx1 = 1
    /\ Cardinality(DOMAIN s.syncGaps) = 2

====
